---------------------------- MODULE Spec2Model ----------------------------
(***************************************************************************)
(* twlint MCP server (src/mcp-server/server.py): the bridge between a     *)
(* tool call (name, arguments) and the twlint command line program.       *)
(*                                                                         *)
(* Text (a Python str) is a sequence of one-character strings; captured   *)
(* process output (Python bytes) is a sequence of byte values 0..255.     *)
(* Indices into text are 0-based, as in the Python code: character i of   *)
(* s is s[i + 1].                                                          *)
(***************************************************************************)
EXTENDS Integers, Sequences, FiniteSets, TLC

(***************************************************************************)
(* Bounds of the model.                                                    *)
(***************************************************************************)
\* Every byte string of at most MaxLen bytes over OutBytes is a possible stdout.
MaxLen == 3

(***************************************************************************)
(* String literals of the program.                                         *)
(***************************************************************************)
\* "node"
NODE == <<"n", "o", "d", "e">>
\* Path(__file__).parent.parent / "dist" / "cli.js", for an install in /opt/twlint
CLI_PATH == <<"/", "o", "p", "t", "/", "t", "w", "l", "i", "n", "t", "/", "d", "i", "s", "t", "/", "c", "l", "i", ".", "j", "s">>
\* "--json"
FLAG_JSON == <<"-", "-", "j", "s", "o", "n">>
\* "--path"
FLAG_PATH == <<"-", "-", "p", "a", "t", "h">>
\* "--no-filter"
FLAG_NO_FILTER == <<"-", "-", "n", "o", "-", "f", "i", "l", "t", "e", "r">>
\* "Error: "
ERROR_PREFIX == <<"E", "r", "r", "o", "r", ":", " ">>
\* "CLI error: "
CLI_ERROR_PREFIX == <<"C", "L", "I", " ", "e", "r", "r", "o", "r", ":", " ">>
\* "Failed to run CLI: "
RUN_FAILED_PREFIX == <<"F", "a", "i", "l", "e", "d", " ", "t", "o", " ", "r", "u", "n", " ", "C", "L", "I", ":", " ">>
\* "Failed to parse CLI output as JSON: "
PARSE_FAILED_PREFIX == <<"F", "a", "i", "l", "e", "d", " ", "t", "o", " ", "p", "a", "r", "s", "e", " ", "C", "L", "I", " ", "o", "u", "t", "p", "u", "t", " ", "a", "s", " ", "J", "S", "O", "N", ":", " ">>
\* "Unknown tool: "
UNKNOWN_TOOL_PREFIX == <<"U", "n", "k", "n", "o", "w", "n", " ", "t", "o", "o", "l", ":", " ">>

(***************************************************************************)
(* Text helpers.                                                           *)
(***************************************************************************)
\* s[i:i+1]: the character at 0-based index i, "" past the end.
At(s, i) == IF i >= 0 /\ i < Len(s) THEN s[i + 1] ELSE ""

\* s[i:j]
Slice(s, i, j) == IF j <= i THEN <<>> ELSE SubSeq(s, i + 1, j)

\* s[idx:idx+len(lit)] == lit
StartsAt(s, idx, lit) == /\ idx + Len(lit) <= Len(s)
                         /\ SubSeq(s, idx + 1, idx + Len(lit)) = lit

Digit(d) == <<"0", "1", "2", "3", "4", "5", "6", "7", "8", "9">>[d + 1]

\* str(n) for an int n >= 0
RECURSIVE IntToText(_)
IntToText(n) == IF n < 10 THEN <<Digit(n)>>
                ELSE IntToText(n \div 10) \o <<Digit(n % 10)>>

DigitChars == {"0", "1", "2", "3", "4", "5", "6", "7", "8", "9"}

DigitValue(c) == CHOOSE d \in 0..9 : Digit(d) = c

\* doc.count('\n', 0, pos)
RECURSIVE CountNewlines(_, _)
CountNewlines(doc, pos) ==
    IF pos <= 0 THEN 0
    ELSE CountNewlines(doc, pos - 1) + (IF doc[pos] = "\n" THEN 1 ELSE 0)

\* doc.rfind('\n', 0, pos): the 0-based index of the last newline before pos, -1 if none
RECURSIVE RFindNewline(_, _)
RFindNewline(doc, pos) ==
    IF pos <= 0 THEN -1
    ELSE IF doc[pos] = "\n" THEN pos - 1
    ELSE RFindNewline(doc, pos - 1)

(***************************************************************************)
(* json.loads, as server.py line 59 calls it (CPython's json.decoder and   *)
(* its scanner).  Documents are over DocChars: no backslash (so            *)
(* scanstring meets no escape) and, outside strings, no '.', 'e', 'E',     *)
(* 'N' or 'I' (so a number is an integer and NaN / Infinity never start).  *)
(***************************************************************************)
\* Python values json.loads builds
JNull == [t |-> "NoneType"]
JBool(b) == [t |-> "bool", b |-> b]
JInt(n) == [t |-> "int", n |-> n]
JStr(s) == [t |-> "str", s |-> s]
JList(items) == [t |-> "list", items |-> items]
\* a dict: its items in insertion order, keys distinct
JDict(pairs) == [t |-> "dict", pairs |-> pairs]

\* a value and the index where scanning goes on
Ok(v, e) == [ok |-> TRUE, val |-> v, end |-> e]
\* JSONDecodeError(msg, doc, pos)
Err(m, p) == [ok |-> FALSE, msg |-> m, pos |-> p]

\* "Expecting value"
EXPECTING_VALUE == <<"E", "x", "p", "e", "c", "t", "i", "n", "g", " ", "v", "a", "l", "u", "e">>
\* "Extra data"
EXTRA_DATA == <<"E", "x", "t", "r", "a", " ", "d", "a", "t", "a">>
\* "Expecting property name enclosed in double quotes"
EXPECTING_NAME == <<"E", "x", "p", "e", "c", "t", "i", "n", "g", " ", "p", "r", "o", "p", "e", "r", "t", "y", " ", "n", "a", "m", "e", " ", "e", "n", "c", "l", "o", "s", "e", "d", " ", "i", "n", " ", "d", "o", "u", "b", "l", "e", " ", "q", "u", "o", "t", "e", "s">>
\* "Expecting ':' delimiter"
EXPECTING_COLON == <<"E", "x", "p", "e", "c", "t", "i", "n", "g", " ", "'", ":", "'", " ", "d", "e", "l", "i", "m", "i", "t", "e", "r">>
\* "Expecting ',' delimiter"
EXPECTING_COMMA == <<"E", "x", "p", "e", "c", "t", "i", "n", "g", " ", "'", ",", "'", " ", "d", "e", "l", "i", "m", "i", "t", "e", "r">>
\* "Unterminated string starting at"
UNTERMINATED_STRING == <<"U", "n", "t", "e", "r", "m", "i", "n", "a", "t", "e", "d", " ", "s", "t", "r", "i", "n", "g", " ", "s", "t", "a", "r", "t", "i", "n", "g", " ", "a", "t">>
\* "Invalid control character at"
INVALID_CONTROL == <<"I", "n", "v", "a", "l", "i", "d", " ", "c", "o", "n", "t", "r", "o", "l", " ", "c", "h", "a", "r", "a", "c", "t", "e", "r", " ", "a", "t">>
\* "true", "false", "null"
LIT_TRUE == <<"t", "r", "u", "e">>
LIT_FALSE == <<"f", "a", "l", "s", "e">>
LIT_NULL == <<"n", "u", "l", "l">>

\* json.decoder.WHITESPACE
WHITESPACE == {" ", "\t", "\n", "\r"}

\* the characters <= 0x1f a document can hold
ControlChars == {"\t", "\n", "\r"}

\* WHITESPACE.match(s, idx).end()
RECURSIVE SkipWs(_, _)
SkipWs(s, idx) == IF idx < Len(s) /\ s[idx + 1] \in WHITESPACE
                  THEN SkipWs(s, idx + 1) ELSE idx

\* scanstring's search: the first index >= next holding '"' or a control
\* character, Len(s) when there is none
RECURSIVE StringStop(_, _)
StringStop(s, next) ==
    IF next >= Len(s) THEN Len(s)
    ELSE IF s[next + 1] = "\"" \/ s[next + 1] \in ControlChars THEN next
    ELSE StringStop(s, next + 1)

\* scanstring(s, end, strict=True): end is the index after the opening quote
scanstring(s, end) ==
    LET next == StringStop(s, end) IN
    IF next >= Len(s) THEN Err(UNTERMINATED_STRING, end - 1)
    ELSE IF s[next + 1] = "\"" THEN Ok(JStr(Slice(s, end, next)), next + 1)
    ELSE Err(INVALID_CONTROL, next)

\* the index after the run of digits starting at idx
RECURSIVE DigitsEnd(_, _)
DigitsEnd(s, idx) == IF At(s, idx) \in DigitChars THEN DigitsEnd(s, idx + 1) ELSE idx

\* int(s[i:j]) for a run of digits
RECURSIVE DigitsValue(_, _, _)
DigitsValue(s, i, j) ==
    IF j <= i THEN 0
    ELSE DigitsValue(s, i, j - 1) * 10 + DigitValue(s[j])

\* the scanner's number match, -?(0|[1-9][0-9]*): StopIteration(start), which
\* every caller turns into "Expecting value" at start, when nothing matches
match_number(s, start) ==
    LET idx == IF At(s, start) = "-" THEN start + 1 ELSE start
        sign == IF At(s, start) = "-" THEN -1 ELSE 1
    IN  IF At(s, idx) = "0" THEN Ok(JInt(0), idx + 1)
        ELSE IF At(s, idx) \in DigitChars
        THEN LET e == DigitsEnd(s, idx)
             IN  Ok(JInt(sign * DigitsValue(s, idx, e)), e)
        ELSE Err(EXPECTING_VALUE, start)

\* PyDict_SetItem: a repeated key keeps its place and takes the new value
DictSet(pairs, k, v) ==
    IF \E i \in 1..Len(pairs) : pairs[i].k = k
    THEN [i \in 1..Len(pairs) |->
             IF pairs[i].k = k THEN [k |-> k, v |-> v] ELSE pairs[i]]
    ELSE Append(pairs, [k |-> k, v |-> v])

RECURSIVE scan_once(_, _)
RECURSIVE ObjectLoop(_, _, _)
RECURSIVE ArrayLoop(_, _, _)

\* JSONObject's loop: idx is where a key is expected
ObjectLoop(s, idx, pairs) ==
    IF At(s, idx) # "\"" THEN Err(EXPECTING_NAME, idx)
    ELSE LET key == scanstring(s, idx + 1) IN
         IF ~key.ok THEN key
         ELSE LET colon == SkipWs(s, key.end) IN
              IF At(s, colon) # ":" THEN Err(EXPECTING_COLON, colon)
              ELSE LET value == scan_once(s, SkipWs(s, colon + 1)) IN
                   IF ~value.ok THEN value
                   ELSE LET sep == SkipWs(s, value.end)
                            items == DictSet(pairs, key.val.s, value.val)
                        IN  IF At(s, sep) = "}" THEN Ok(JDict(items), sep + 1)
                            ELSE IF At(s, sep) # "," THEN Err(EXPECTING_COMMA, sep)
                            ELSE ObjectLoop(s, SkipWs(s, sep + 1), items)

\* JSONObject(s_and_end): start is the index after '{'
JSONObject(s, start) ==
    LET idx == SkipWs(s, start) IN
    IF At(s, idx) = "}" THEN Ok(JDict(<<>>), idx + 1)
    ELSE ObjectLoop(s, idx, <<>>)

\* JSONArray's loop: idx is where a value is expected
ArrayLoop(s, idx, values) ==
    LET value == scan_once(s, idx) IN
    IF ~value.ok THEN value
    ELSE LET sep == SkipWs(s, value.end)
             items == Append(values, value.val)
         IN  IF At(s, sep) = "]" THEN Ok(JList(items), sep + 1)
             ELSE IF At(s, sep) # "," THEN Err(EXPECTING_COMMA, sep)
             ELSE ArrayLoop(s, SkipWs(s, sep + 1), items)

\* JSONArray(s_and_end): start is the index after '['
JSONArray(s, start) ==
    LET idx == SkipWs(s, start) IN
    IF At(s, idx) = "]" THEN Ok(JList(<<>>), idx + 1)
    ELSE ArrayLoop(s, idx, <<>>)

\* scan_once(string, idx)
scan_once(s, idx) ==
    IF idx >= Len(s) THEN Err(EXPECTING_VALUE, idx)
    ELSE IF s[idx + 1] = "\"" THEN scanstring(s, idx + 1)
    ELSE IF s[idx + 1] = "{" THEN JSONObject(s, idx + 1)
    ELSE IF s[idx + 1] = "[" THEN JSONArray(s, idx + 1)
    ELSE IF StartsAt(s, idx, LIT_NULL) THEN Ok(JNull, idx + 4)
    ELSE IF StartsAt(s, idx, LIT_TRUE) THEN Ok(JBool(TRUE), idx + 4)
    ELSE IF StartsAt(s, idx, LIT_FALSE) THEN Ok(JBool(FALSE), idx + 5)
    ELSE match_number(s, idx)

\* json.loads(s): JSONDecoder.decode, the whole text as one document
loads(s) ==
    LET r == scan_once(s, SkipWs(s, 0)) IN
    IF ~r.ok THEN r
    ELSE LET end == SkipWs(s, r.end) IN
         IF end # Len(s) THEN Err(EXTRA_DATA, end) ELSE r

\* JSONDecodeError.lineno
lineno(doc, pos) == CountNewlines(doc, pos) + 1

\* a variant of colno that counts columns from 0
colnoFromZero(doc, pos) == pos - RFindNewline(doc, pos) - 1

\* JSONDecodeError.colno
colno(doc, pos) == pos - RFindNewline(doc, pos)

\* str(JSONDecodeError): '%s: line %d column %d (char %d)'
JSONDecodeErrorText(doc, e) ==
    e.msg \o <<":", " ", "l", "i", "n", "e", " ">> \o IntToText(lineno(doc, e.pos))
          \o <<" ", "c", "o", "l", "u", "m", "n", " ">> \o IntToText(colno(doc, e.pos))
          \o <<" ", "(", "c", "h", "a", "r", " ">> \o IntToText(e.pos) \o <<")">>

(***************************************************************************)
(* json.dumps(result, indent=2), as server.py lines 146 and 168 call it    *)
(* (CPython's json.encoder, the pure-Python iterencode that indent         *)
(* selects).                                                               *)
(***************************************************************************)
\* ESCAPE_ASCII's replacement of one character
EscapeChar(c) ==
    CASE c = "\"" -> <<"\\", "\"">>
      [] c = "\\" -> <<"\\", "\\">>
      [] c = "\n" -> <<"\\", "n">>
      [] c = "\r" -> <<"\\", "r">>
      [] c = "\t" -> <<"\\", "t">>
      [] OTHER -> <<c>>

RECURSIVE EscapeText(_)
EscapeText(s) == IF s = <<>> THEN <<>>
                 ELSE EscapeChar(Head(s)) \o EscapeText(Tail(s))

\* encode_basestring_ascii(s)
encode_basestring_ascii(s) == <<"\"">> \o EscapeText(s) \o <<"\"">>

\* int.__repr__
IntStr(n) == IF n < 0 THEN <<"-">> \o IntToText(-n) ELSE IntToText(n)

\* ' ' * n
RECURSIVE Spaces(_)
Spaces(n) == IF n <= 0 THEN <<>> ELSE <<" ">> \o Spaces(n - 1)

\* '\n' + _indent * _current_indent_level
NewlineIndent(indent, level) == <<"\n">> \o Spaces(indent * level)

RECURSIVE iterencode(_, _, _)
RECURSIVE iterencode_list(_, _, _, _)
RECURSIVE iterencode_dict(_, _, _, _)

\* _iterencode_list's loop from item i on; the item separator is ',' + newline_indent
iterencode_list(items, i, indent, level) ==
    IF i > Len(items) THEN <<>>
    ELSE (IF i = 1 THEN <<>> ELSE <<",">> \o NewlineIndent(indent, level))
         \o iterencode(items[i], indent, level)
         \o iterencode_list(items, i + 1, indent, level)

\* _iterencode_dict's loop from item i on; the key separator is ': '
iterencode_dict(pairs, i, indent, level) ==
    IF i > Len(pairs) THEN <<>>
    ELSE (IF i = 1 THEN <<>> ELSE <<",">> \o NewlineIndent(indent, level))
         \o encode_basestring_ascii(pairs[i].k) \o <<":", " ">>
         \o iterencode(pairs[i].v, indent, level)
         \o iterencode_dict(pairs, i + 1, indent, level)

\* _iterencode(o, _current_indent_level)
iterencode(o, indent, level) ==
    CASE o.t = "str" -> encode_basestring_ascii(o.s)
      [] o.t = "NoneType" -> LIT_NULL
      [] o.t = "bool" -> IF o.b THEN LIT_TRUE ELSE LIT_FALSE
      [] o.t = "int" -> IntStr(o.n)
      [] o.t = "list" ->
            IF o.items = <<>> THEN <<"[", "]">>
            ELSE <<"[">> \o NewlineIndent(indent, level + 1)
                 \o iterencode_list(o.items, 1, indent, level + 1)
                 \o NewlineIndent(indent, level) \o <<"]">>
      [] o.t = "dict" ->
            IF o.pairs = <<>> THEN <<"{", "}">>
            ELSE <<"{">> \o NewlineIndent(indent, level + 1)
                 \o iterencode_dict(o.pairs, 1, indent, level + 1)
                 \o NewlineIndent(indent, level) \o <<"}">>

\* json.dumps(obj, indent=indent)
dumps(obj, indent) == iterencode(obj, indent, 0)

(***************************************************************************)
(* bytes.decode('utf-8'), as server.py lines 53 and 58 call it.  Captured  *)
(* bytes are ASCII (tab, newline, carriage return, 0x20..0x7e) or 0xff,    *)
(* which starts no UTF-8 sequence.                                         *)
(***************************************************************************)
Printable == <<" ", "!", "\"", "#", "$", "%", "&", "'", "(", ")", "*", "+", ",", "-", ".", "/", "0", "1", "2", "3", "4", "5", "6", "7", "8", "9", ":", ";", "<", "=", ">", "?", "@", "A", "B", "C", "D", "E", "F", "G", "H", "I", "J", "K", "L", "M", "N", "O", "P", "Q", "R", "S", "T", "U", "V", "W", "X", "Y", "Z", "[", "\\", "]", "^", "_", "0x60", "a", "b", "c", "d", "e", "f", "g", "h", "i", "j", "k", "l", "m", "n", "o", "p", "q", "r", "s", "t", "u", "v", "w", "x", "y", "z", "{", "|", "}", "~">>

\* (the grave accent, 0x60, cannot be written in a string here and is left out)
AsciiBytes == {9, 10, 13} \cup ((32..126) \ {96})

\* chr(b) for an ASCII byte
Chr(b) == CASE b = 9 -> "\t"
            [] b = 10 -> "\n"
            [] b = 13 -> "\r"
            [] OTHER -> Printable[b - 31]

\* ord(c)
Ord(c) == CHOOSE b \in AsciiBytes : Chr(b) = c

\* str.encode('utf-8') of ASCII text: what the child writes
encode(text) == [i \in 1..Len(text) |-> Ord(text[i])]

\* "'utf-8' codec can't decode byte 0xff in position "
CANT_DECODE == <<"'", "u", "t", "f", "-", "8", "'", " ", "c", "o", "d", "e", "c", " ", "c", "a", "n", "'", "t", " ", "d", "e", "c", "o", "d", "e", " ", "b", "y", "t", "e", " ", "0", "x", "f", "f", " ", "i", "n", " ", "p", "o", "s", "i", "t", "i", "o", "n", " ">>
\* ": invalid start byte"
INVALID_START_BYTE == <<":", " ", "i", "n", "v", "a", "l", "i", "d", " ", "s", "t", "a", "r", "t", " ", "b", "y", "t", "e">>

\* the 0-based index of the first byte that is not ASCII, Len(b) when all are
RECURSIVE FirstInvalid(_, _)
FirstInvalid(b, i) == IF i >= Len(b) THEN Len(b)
                      ELSE IF b[i + 1] \notin AsciiBytes THEN i
                      ELSE FirstInvalid(b, i + 1)

\* b.decode('utf-8'): the text, or str(UnicodeDecodeError)
decode(b) ==
    LET bad == FirstInvalid(b, 0) IN
    IF bad < Len(b)
    THEN [ok |-> FALSE,
          message |-> CANT_DECODE \o IntToText(bad) \o INVALID_START_BYTE]
    ELSE [ok |-> TRUE, text |-> [i \in 1..Len(b) |-> Chr(b[i])]]

(***************************************************************************)
(* run_cli_command (server.py lines 36-64).                                *)
(***************************************************************************)
\* "CLI tool not found at "
CLI_NOT_FOUND == <<"C", "L", "I", " ", "t", "o", "o", "l", " ", "n", "o", "t", " ", "f", "o", "u", "n", "d", " ", "a", "t", " ">>
\* ". Please run 'pnpm run build' in the parent directory first."
PLEASE_BUILD == <<".", " ", "P", "l", "e", "a", "s", "e", " ", "r", "u", "n", " ", "'", "p", "n", "p", "m", " ", "r", "u", "n", " ", "b", "u", "i", "l", "d", "'", " ", "i", "n", " ", "t", "h", "e", " ", "p", "a", "r", "e", "n", "t", " ", "d", "i", "r", "e", "c", "t", "o", "r", "y", " ", "f", "i", "r", "s", "t", ".">>
\* str(FileNotFoundError) when the node executable is not on PATH
NO_SUCH_FILE == <<"[", "E", "r", "r", "n", "o", " ", "2", "]", " ", "N", "o", " ", "s", "u", "c", "h", " ", "f", "i", "l", "e", " ", "o", "r", " ", "d", "i", "r", "e", "c", "t", "o", "r", "y", ":", " ", "'", "n", "o", "d", "e", "'">>

\* run_cli_command returns the decoded value ...
Returned(v) == [ok |-> TRUE, value |-> v]
\* ... or raises RuntimeError(message)
Raised(m) == [ok |-> FALSE, message |-> m]

\* ensure_cli_built() when CLI_PATH does not exist: the RuntimeError's message
ensure_cli_built == CLI_NOT_FOUND \o CLI_PATH \o PLEASE_BUILD

\* line 40: cmd = ["node", str(CLI_PATH), "--json"] + args
Cmd(args) == <<NODE, CLI_PATH, FLAG_JSON>> \o args

\* lines 63-64: except Exception as e: raise RuntimeError(f"Failed to run CLI: {e}")
FailedToRun(e) == Raised(RUN_FAILED_PREFIX \o e)

\* lines 61-62: except json.JSONDecodeError as e
FailedToParse(doc, e) == Raised(PARSE_FAILED_PREFIX \o JSONDecodeErrorText(doc, e))

\* lines 57-59: output = stdout.decode('utf-8'); return json.loads(output)
ParseOutput(stdout) ==
    LET output == decode(stdout) IN
    IF ~output.ok THEN FailedToRun(output.message)
    ELSE LET r == loads(output.text) IN
         IF r.ok THEN Returned(r.val) ELSE FailedToParse(output.text, r)

\* lines 52-64, once communicate() has returned (stdout, stderr) and the
\* child's returncode is known.  The RuntimeError of line 55 is raised inside
\* the try block, so the except clause of line 63 wraps it.
run_cli_command(stdout, stderr, returncode) ==
    IF stderr # <<>>
    THEN LET error_msg == decode(stderr) IN
         IF ~error_msg.ok THEN FailedToRun(error_msg.message)
         ELSE IF returncode # 0 /\ stdout = <<>>
         THEN FailedToRun(CLI_ERROR_PREFIX \o error_msg.text)
         ELSE ParseOutput(stdout)
    ELSE ParseOutput(stdout)

(***************************************************************************)
(* handle_call_tool (server.py lines 120-181).                             *)
(***************************************************************************)
\* "check_directory"
CHECK_DIRECTORY == <<"c", "h", "e", "c", "k", "_", "d", "i", "r", "e", "c", "t", "o", "r", "y">>
\* "check_file"
CHECK_FILE == <<"c", "h", "e", "c", "k", "_", "f", "i", "l", "e">>
\* "summary"
SUMMARY == <<"s", "u", "m", "m", "a", "r", "y">>
\* "invalidClasses"
INVALID_CLASSES == <<"i", "n", "v", "a", "l", "i", "d", "C", "l", "a", "s", "s", "e", "s">>
\* "byFile"
BY_FILE == <<"b", "y", "F", "i", "l", "e">>
\* str(TypeError) of subscripting a list, a str, an int, None and a bool with a str
LIST_INDICES == <<"l", "i", "s", "t", " ", "i", "n", "d", "i", "c", "e", "s", " ", "m", "u", "s", "t", " ", "b", "e", " ", "i", "n", "t", "e", "g", "e", "r", "s", " ", "o", "r", " ", "s", "l", "i", "c", "e", "s", ",", " ", "n", "o", "t", " ", "s", "t", "r">>
STRING_INDICES == <<"s", "t", "r", "i", "n", "g", " ", "i", "n", "d", "i", "c", "e", "s", " ", "m", "u", "s", "t", " ", "b", "e", " ", "i", "n", "t", "e", "g", "e", "r", "s", ",", " ", "n", "o", "t", " ", "'", "s", "t", "r", "'">>
INT_NOT_SUBSCRIPTABLE == <<"'", "i", "n", "t", "'", " ", "o", "b", "j", "e", "c", "t", " ", "i", "s", " ", "n", "o", "t", " ", "s", "u", "b", "s", "c", "r", "i", "p", "t", "a", "b", "l", "e">>
NONE_NOT_SUBSCRIPTABLE == <<"'", "N", "o", "n", "e", "T", "y", "p", "e", "'", " ", "o", "b", "j", "e", "c", "t", " ", "i", "s", " ", "n", "o", "t", " ", "s", "u", "b", "s", "c", "r", "i", "p", "t", "a", "b", "l", "e">>
BOOL_NOT_SUBSCRIPTABLE == <<"'", "b", "o", "o", "l", "'", " ", "o", "b", "j", "e", "c", "t", " ", "i", "s", " ", "n", "o", "t", " ", "s", "u", "b", "s", "c", "r", "i", "p", "t", "a", "b", "l", "e">>

\* TextContent(type="text", text=text)
TextContent(text) == [type |-> "text", text |-> text]

\* a variant of Dispatch whose last branch is check_file
DispatchNoElse(n) == IF n = CHECK_DIRECTORY THEN "check_directory" ELSE "check_file"

\* lines 124, 155, 177: the branch a tool name takes
Dispatch(n) == IF n = CHECK_DIRECTORY THEN "check_directory"
               ELSE IF n = CHECK_FILE THEN "check_file"
               ELSE "unknown"

\* lines 125-126 and 156-157: the keys subscripted before the try block, in order
Subscripted(n) == IF Dispatch(n) = "check_directory" THEN <<"css_path", "files">>
                  ELSE <<"css_path", "file">>

\* the keys among them that the argument map lacks, in order
MissingKeys(n, a) == SelectSeq(Subscripted(n), LAMBDA k : k \notin DOMAIN a)

\* line 127: arguments.get("no_filter", False)
no_filter(a) == IF "no_filter" \in DOMAIN a THEN a["no_filter"] ELSE FALSE

\* lines 130-133 and 160: the arguments handed to run_cli_command
cli_args(n, a) ==
    IF Dispatch(n) = "check_directory"
    THEN <<FLAG_JSON, FLAG_PATH, a["css_path"]>>
         \o (IF no_filter(a) THEN <<FLAG_NO_FILTER>> ELSE <<>>)
         \o a["files"]
    ELSE <<FLAG_JSON, FLAG_PATH, a["css_path"], a["file"]>>

\* str(e) of the exception result[key] raises, <<>> when it raises none
GetItemError(result, key) ==
    CASE result.t = "dict" ->
            IF \E i \in 1..Len(result.pairs) : result.pairs[i].k = key
            THEN <<>> ELSE <<"'">> \o key \o <<"'">>
      [] result.t = "list" -> LIST_INDICES
      [] result.t = "str" -> STRING_INDICES
      [] result.t = "int" -> INT_NOT_SUBSCRIPTABLE
      [] result.t = "NoneType" -> NONE_NOT_SUBSCRIPTABLE
      [] result.t = "bool" -> BOOL_NOT_SUBSCRIPTABLE

\* lines 139-141 and 162-163: the keys of result subscripted inside the try
\* block (result.get("byFile", []) of line 163 raises nothing on a dict)
ResultKeys(n) == IF Dispatch(n) = "check_directory"
                 THEN <<SUMMARY, INVALID_CLASSES, BY_FILE>>
                 ELSE <<SUMMARY>>

\* lines 149-153 and 171-175: except Exception as e
ErrorReply(message) == <<TextContent(ERROR_PREFIX \o message)>>

\* str(e) of each exception the subscripts of lines 139-141 and 162 would
\* raise on result, in order
GetItemErrors(n, result) ==
    SelectSeq([i \in 1..Len(ResultKeys(n)) |-> GetItemError(result, ResultKeys(n)[i])],
              LAMBDA e : e # <<>>)

\* lines 139-147 and 162-169: the reply for a value run_cli_command returned
FormatResult(n, result) ==
    IF GetItemErrors(n, result) # <<>> THEN ErrorReply(Head(GetItemErrors(n, result)))
    ELSE <<TextContent(dumps(result, 2))>>

\* whether the handler leaves through the return of line 144 or 166
Succeeds(n, outcome) == outcome.ok /\ GetItemErrors(n, outcome.value) = <<>>

\* lines 135-153 and 159-175: the reply for run_cli_command's outcome
Reply(n, outcome) == IF outcome.ok THEN FormatResult(n, outcome.value)
                     ELSE ErrorReply(outcome.message)

\* lines 177-181
UnknownToolReply(n) == <<TextContent(UNKNOWN_TOOL_PREFIX \o n)>>

(***************************************************************************)
(* The requests the transport delivers and the results a child produces.   *)
(***************************************************************************)
\* "count_classes": the tool name test_count_classes.py calls
COUNT_CLASSES == <<"c", "o", "u", "n", "t", "_", "c", "l", "a", "s", "s", "e", "s">>
\* "styles.css", "index.html", "b.html", "/srv/a.css"
PathStyles == <<"s", "t", "y", "l", "e", "s", ".", "c", "s", "s">>
PathIndex == <<"i", "n", "d", "e", "x", ".", "h", "t", "m", "l">>
PathB == <<"b", ".", "h", "t", "m", "l">>
PathAbs == <<"/", "s", "r", "v", "/", "a", ".", "c", "s", "s">>
\* "~/g.css", "~/a/*.tsx": paths with the home-directory marker, as in
\* test_count_classes.py lines 13 and 15
PathHomeCss == <<"~", "/", "g", ".", "c", "s", "s">>
PathHomeGlob == <<"~", "/", "a", "/", "*", ".", "t", "s", "x">>
\* "text-sm"
ClassName == <<"t", "e", "x", "t", "-", "s", "m">>

Names == {CHECK_DIRECTORY, CHECK_FILE, COUNT_CLASSES, <<>>}

ArgumentMaps ==
    { [css_path |-> PathStyles, file |-> PathIndex],
      [css_path |-> PathHomeCss, file |-> PathHomeCss, files |-> <<>>,
       no_filter |-> FALSE],
      [css_path |-> PathHomeCss, files |-> <<PathHomeGlob, PathB>>,
       no_filter |-> TRUE],
      [css_path |-> PathAbs, files |-> <<PathB, PathIndex>>],
      [css_path |-> PathHomeCss, class_name |-> ClassName,
       files |-> <<PathHomeGlob>>],
      [css_path |-> PathStyles],
      [files |-> <<PathB>>, file |-> PathIndex],
      [no_filter |-> TRUE] }

\* '{"summary":{"total":1},"invalidClasses":["foo-bar"],"byFile":[]}'
DocScenarioA == <<"{", "\"", "s", "u", "m", "m", "a", "r", "y", "\"", ":", "{", "\"", "t", "o", "t", "a", "l", "\"", ":", "1", "}", ",", "\"", "i", "n", "v", "a", "l", "i", "d", "C", "l", "a", "s", "s", "e", "s", "\"", ":", "[", "\"", "f", "o", "o", "-", "b", "a", "r", "\"", "]", ",", "\"", "b", "y", "F", "i", "l", "e", "\"", ":", "[", "]", "}">>
\* '{"a":1,}'
DocScenarioC == <<"{", "\"", "a", "\"", ":", "1", ",", "}">>
\* '{"summary": {},\n "invalidClasses": []}'
DocNoByFile == <<"{", "\"", "s", "u", "m", "m", "a", "r", "y", "\"", ":", " ", "{", "}", ",", "\n", " ", "\"", "i", "n", "v", "a", "l", "i", "d", "C", "l", "a", "s", "s", "e", "s", "\"", ":", " ", "[", "]", "}">>
\* '{\n "summary": 0,\n "summary": [1,\n  {}]\n}\n'
DocLines == <<"{", "\n", " ", "\"", "s", "u", "m", "m", "a", "r", "y", "\"", ":", " ", "0", ",", "\n", " ", "\"", "s", "u", "m", "m", "a", "r", "y", "\"", ":", " ", "[", "1", ",", "\n", " ", " ", "{", "}", "]", "\n", "}", "\n">>
\* '[1, "a"]'
DocList == <<"[", "1", ",", " ", "\"", "a", "\"", "]">>
\* '{"summary":1}\n{}'
DocTwo == <<"{", "\"", "s", "u", "m", "m", "a", "r", "y", "\"", ":", "1", "}", "\n", "{", "}">>
\* "file not found: styles.css"
StderrScenarioB == <<"f", "i", "l", "e", " ", "n", "o", "t", " ", "f", "o", "u", "n", "d", ":", " ", "s", "t", "y", "l", "e", "s", ".", "c", "s", "s">>

SampleDocs == {DocScenarioA, DocScenarioC, DocNoByFile, DocLines, DocList, DocTwo}

\* what a child that is cut short leaves of a document
Prefixes(doc) == {SubSeq(doc, 1, n) : n \in 0..Len(doc)}

\* { } [ ] " , 1 newline space and 0xff
OutBytes == {123, 125, 91, 93, 34, 44, 49, 10, 32, 255}

ShortOutputs == UNION {[1..n -> OutBytes] : n \in 0..MaxLen}

Stdouts == ShortOutputs \cup {encode(p) : p \in UNION {Prefixes(d) : d \in SampleDocs}}

Stderrs == {<<>>, encode(StderrScenarioB), <<255>>}

\* the child's exit codes
ReturnCodes == {0, 1}

(***************************************************************************)
(* One request at a time.  A step of the machine is what the handler runs  *)
(* between two awaits: the call up to create_subprocess_exec (line 43),    *)
(* from there to communicate() (line 50), and from there to the return.    *)
(***************************************************************************)
VARIABLES
    pc,          \* "idle", "spawning" (awaiting line 43), "communicating"
                 \* (awaiting line 50), "replied", "raised"
    name,        \* the request's tool name
    arguments,   \* the request's argument map
    cmd,         \* the command line of line 40, <<>> until it is built
    checks,      \* calls of ensure_cli_built
    attempts,    \* calls of create_subprocess_exec
    children,    \* child processes started
    results,     \* the (stdout, stderr, returncode) results captured
    outcome,     \* what run_cli_command returned or raised, if it was called
    reply,       \* the content blocks returned, <<>> until then
    exc,         \* the exception that left handle_call_tool, if one did
    phases       \* the states of the request passed so far, in order

vars == <<pc, name, arguments, cmd, checks, attempts, children, results,
          outcome, reply, exc, phases>>

Init == /\ pc = "idle"
        /\ name = <<>>
        /\ arguments = <<>>
        /\ cmd = <<>>
        /\ checks = 0
        /\ attempts = 0
        /\ children = 0
        /\ results = <<>>
        /\ outcome = <<>>
        /\ reply = <<>>
        /\ exc = <<>>
        /\ phases = <<>>

\* lines 177-181: a name that is neither tool
CallUnknownTool(n, a) ==
    /\ pc = "idle"
    /\ Dispatch(n) = "unknown"
    /\ name' = n
    /\ arguments' = a
    /\ reply' = UnknownToolReply(n)
    /\ phases' = <<"Received", "RepliedError">>
    /\ pc' = "replied"
    /\ UNCHANGED <<cmd, checks, attempts, children, results, outcome, exc>>

\* lines 125-126 and 156-157: arguments[key] of a missing key raises KeyError
\* outside every try block
CallMissingArgument(n, a) ==
    /\ pc = "idle"
    /\ Dispatch(n) # "unknown"
    /\ MissingKeys(n, a) # <<>>
    /\ name' = n
    /\ arguments' = a
    /\ exc' = <<[type |-> "KeyError", key |-> Head(MissingKeys(n, a))]>>
    /\ phases' = <<"Received">>
    /\ pc' = "raised"
    /\ UNCHANGED <<cmd, checks, attempts, children, results, outcome, reply>>

\* lines 28-34 and 38: CLI_PATH does not exist; ensure_cli_built raises inside
\* the handler's try block
CallCliNotBuilt(n, a) ==
    /\ pc = "idle"
    /\ Dispatch(n) # "unknown"
    /\ MissingKeys(n, a) = <<>>
    /\ name' = n
    /\ arguments' = a
    /\ checks' = checks + 1
    /\ outcome' = <<Raised(ensure_cli_built)>>
    /\ reply' = Reply(n, Raised(ensure_cli_built))
    /\ phases' = <<"Received", "ArgumentsBuilt", "RepliedError">>
    /\ pc' = "replied"
    /\ UNCHANGED <<cmd, attempts, children, results, exc>>

\* lines 38-48: CLI_PATH exists; the handler awaits create_subprocess_exec
CallStartsChild(n, a) ==
    /\ pc = "idle"
    /\ Dispatch(n) # "unknown"
    /\ MissingKeys(n, a) = <<>>
    /\ name' = n
    /\ arguments' = a
    /\ checks' = checks + 1
    /\ cmd' = Cmd(cli_args(n, a))
    /\ attempts' = attempts + 1
    /\ phases' = <<"Received", "ArgumentsBuilt">>
    /\ pc' = "spawning"
    /\ UNCHANGED <<children, results, outcome, reply, exc>>

\* a variant of SubprocessFails that calls create_subprocess_exec again
SubprocessFailsRetries ==
    /\ pc = "spawning"
    /\ attempts < 3
    /\ attempts' = attempts + 1
    /\ UNCHANGED <<pc, name, arguments, cmd, checks, children, results, outcome,
                   reply, exc, phases>>

\* line 43 raises (no node executable): lines 63-64, then lines 149-153
SubprocessFails ==
    /\ pc = "spawning"
    /\ outcome' = <<FailedToRun(NO_SUCH_FILE)>>
    /\ reply' = Reply(name, FailedToRun(NO_SUCH_FILE))
    /\ phases' = phases \o <<"RepliedError">>
    /\ pc' = "replied"
    /\ UNCHANGED <<name, arguments, cmd, checks, attempts, children, results, exc>>

\* line 43 returns the child; the handler awaits communicate()
SubprocessStarts ==
    /\ pc = "spawning"
    /\ children' = children + 1
    /\ phases' = phases \o <<"ProcessSpawned">>
    /\ pc' = "communicating"
    /\ UNCHANGED <<name, arguments, cmd, checks, attempts, results, outcome, reply, exc>>

\* line 50 returns once the child has ended: lines 52-64, then the reply
CommunicateReturns(stdout, stderr, returncode) ==
    /\ pc = "communicating"
    /\ results' = Append(results, [stdout |-> stdout, stderr |-> stderr,
                                   returncode |-> returncode])
    /\ LET result == run_cli_command(stdout, stderr, returncode)
       IN  /\ outcome' = <<result>>
           /\ reply' = Reply(name, result)
           /\ phases' = phases \o <<"OutputCaptured", "Normalized",
                                    IF Succeeds(name, result) THEN "RepliedSuccess"
                                    ELSE "RepliedError">>
    /\ pc' = "replied"
    /\ UNCHANGED <<name, arguments, cmd, checks, attempts, children, exc>>

\* the transport takes the reply (or the exception); the next request starts
\* from a fresh call
Deliver ==
    /\ pc \in {"replied", "raised"}
    /\ pc' = "idle"
    /\ name' = <<>>
    /\ arguments' = <<>>
    /\ cmd' = <<>>
    /\ checks' = 0
    /\ attempts' = 0
    /\ children' = 0
    /\ results' = <<>>
    /\ outcome' = <<>>
    /\ reply' = <<>>
    /\ exc' = <<>>
    /\ phases' = <<>>

\* the child ends with some output and some exit code
ChildEnds == /\ pc = "communicating"
             /\ \E stdout \in Stdouts, stderr \in Stderrs, returncode \in ReturnCodes :
                   CommunicateReturns(stdout, stderr, returncode)

Next == \/ \E n \in Names, a \in ArgumentMaps : CallUnknownTool(n, a)
        \/ \E n \in Names, a \in ArgumentMaps : CallMissingArgument(n, a)
        \/ \E n \in Names, a \in ArgumentMaps : CallCliNotBuilt(n, a)
        \/ \E n \in Names, a \in ArgumentMaps : CallStartsChild(n, a)
        \/ SubprocessFails
        \/ SubprocessStarts
        \/ ChildEnds
        \/ Deliver

Spec == Init /\ [][Next]_vars

(***************************************************************************)
(* os.path.expanduser and the context lines, as debug_cli.py uses them.    *)
(***************************************************************************)
\* str(Path.home()) (debug_cli.py line 79), for a user whose home is /home/u
HOME == <<"/", "h", "o", "m", "e", "/", "u">>

\* os.path.expanduser(path) (debug_cli.py lines 80-81): a leading "~" alone or
\* before "/" becomes the home directory; "~name" of no known user is kept
expanduser(path) ==
    IF At(path, 0) = "~" /\ At(path, 1) \in {"", "/"}
    THEN HOME \o Slice(path, 1, Len(path))
    ELSE path

\* output.split('\n') (debug_cli.py line 55)
RECURSIVE split_lines(_)
split_lines(text) ==
    IF \E i \in 1..Len(text) : text[i] = "\n"
    THEN LET i == CHOOSE i \in 1..Len(text) :
                      text[i] = "\n" /\ \A j \in 1..(i - 1) : text[j] # "\n"
         IN  <<SubSeq(text, 1, i - 1)>> \o split_lines(SubSeq(text, i + 1, Len(text)))
    ELSE <<text>>

\* debug_cli.py lines 56-61: the reported line, the line before it and the
\* line after it, those that exist
context_lines(lines, l) ==
    IF l <= Len(lines)
    THEN <<lines[l]>> \o (IF l > 1 THEN <<lines[l - 1]>> ELSE <<>>)
                      \o (IF l < Len(lines) THEN <<lines[l + 1]>> ELSE <<>>)
    ELSE <<>>

(***************************************************************************)
(* Vocabulary of the properties.                                           *)
(***************************************************************************)
StartsWith(s, p) == Len(p) <= Len(s) /\ SubSeq(s, 1, Len(p)) = p

EndsWith(s, p) == Len(p) <= Len(s) /\ SubSeq(s, Len(s) - Len(p) + 1, Len(s)) = p

Contains(s, p) == \E i \in 0..(Len(s) - Len(p)) : SubSeq(s, i + 1, i + Len(p)) = p

Occurrences(seq, x) == Cardinality({i \in 1..Len(seq) : seq[i] = x})

\* the 0-based offset at which line l (1-based) of lines starts
RECURSIVE LineStart(_, _)
LineStart(lines, l) == IF l <= 1 THEN 0
                       ELSE LineStart(lines, l - 1) + Len(lines[l - 1]) + 1

KnownTool == name \in {CHECK_DIRECTORY, CHECK_FILE}

OneTextBlock == Len(reply) = 1 /\ reply[1].type = "text"

\* the child has ended and the handler has replied
Captured == pc = "replied" /\ Len(results) = 1

\* the captured stdout decodes and is one JSON document
StdoutIsJson == /\ decode(results[1].stdout).ok
                /\ loads(decode(results[1].stdout).text).ok

\* the captured stdout decodes and is not a JSON document
StdoutIsMalformed == /\ decode(results[1].stdout).ok
                     /\ ~loads(decode(results[1].stdout).text).ok

\* lines 52-55 raise nothing: stderr is empty, or it decodes and the result
\* is not the empty-stdout-with-nonzero-exit one
StderrPasses ==
    \/ results[1].stderr = <<>>
    \/ /\ decode(results[1].stderr).ok
       /\ ~(results[1].returncode # 0 /\ results[1].stdout = <<>>)

\* the positional (file or glob) arguments of the request
Positionals == IF name = CHECK_DIRECTORY THEN arguments["files"]
               ELSE <<arguments["file"]>>

(***************************************************************************)
(* C1.  Every call of handle_call_tool, also one of a known tool whose    *)
(* argument map lacks a required field, ends with a reply of exactly one   *)
(* text block; no exception leaves the handler.                            *)
(***************************************************************************)
C1_NoExceptionEscapes == pc \in {"replied", "raised"} => exc = <<>> /\ OneTextBlock

(***************************************************************************)
(* C2.  An empty stdout with a nonzero exit code gives the process-failure *)
(* outcome, whose message carries "CLI error: " and the stderr text, and   *)
(* never the parse-failure outcome, whatever stderr holds (here: any       *)
(* stderr that decodes, the empty one included).                           *)
(***************************************************************************)
C2_EmptyStdoutIsProcessFailure ==
    ( /\ Captured
      /\ results[1].stdout = <<>>
      /\ results[1].returncode # 0
      /\ decode(results[1].stderr).ok )
    => /\ ~outcome[1].ok
       /\ EndsWith(outcome[1].message,
                   CLI_ERROR_PREFIX \o decode(results[1].stderr).text)
       /\ ~StartsWith(outcome[1].message, PARSE_FAILED_PREFIX)

(***************************************************************************)
(* C3.  No stdout, exit code 1 and stderr text S give the reply            *)
(* "Error: CLI error: " followed by S, with nothing in between.            *)
(***************************************************************************)
C3_ProcessFailureReplyText ==
    ( /\ Captured
      /\ results[1].stdout = <<>>
      /\ results[1].returncode = 1
      /\ results[1].stderr # <<>>
      /\ decode(results[1].stderr).ok )
    => reply = <<TextContent(ERROR_PREFIX \o CLI_ERROR_PREFIX
                             \o decode(results[1].stderr).text)>>

(***************************************************************************)
(* C4.  A stdout that decodes as one JSON document makes run_cli_command   *)
(* return the decoded value, for every exit code and every stderr.         *)
(***************************************************************************)
C4_JsonStdoutAlwaysReturned ==
    (Captured /\ StdoutIsJson)
    => outcome[1] = Returned(loads(decode(results[1].stdout).text).val)

(***************************************************************************)
(* C5.  For every JSON value V that run_cli_command returns, the reply is  *)
(* one text block holding V pretty-printed, and decoding that text gives   *)
(* V back.                                                                 *)
(***************************************************************************)
C5_ReplyIsPrettyPrintedValue ==
    (Captured /\ outcome[1].ok)
    => /\ reply = <<TextContent(dumps(outcome[1].value, 2))>>
       /\ loads(reply[1].text).ok
       /\ loads(reply[1].text).val = outcome[1].value

C7_CommandLineShape ==
    children = 1
    => /\ cmd = <<NODE, CLI_PATH, FLAG_JSON, FLAG_PATH, arguments["css_path"]>>
                \o (IF /\ name = CHECK_DIRECTORY
                       /\ "no_filter" \in DOMAIN arguments
                       /\ arguments["no_filter"]
                    THEN <<FLAG_NO_FILTER>> ELSE <<>>)
                \o Positionals
       /\ Occurrences(cmd, FLAG_JSON) = 1

(***************************************************************************)
(* C8.  Every path argument of the request (css_path, each of files, file) *)
(* stands in the child's command line with a leading ~ replaced by the     *)
(* home directory, wildcards untouched; other arguments stand unchanged.   *)
(***************************************************************************)
C8_HomeDirectoryExpanded ==
    children = 1
    => /\ \E i \in 1..(Len(cmd) - 1) :
             cmd[i] = FLAG_PATH /\ cmd[i + 1] = expanduser(arguments["css_path"])
       /\ Len(cmd) >= Len(Positionals)
       /\ \A j \in 1..Len(Positionals) :
             cmd[Len(cmd) - Len(Positionals) + j] = expanduser(Positionals[j])

C10_EveryReplyPassedAllStates ==
    pc = "replied"
    => /\ \E last \in {"RepliedSuccess", "RepliedError"} :
             phases = <<"Received", "ArgumentsBuilt", "ProcessSpawned",
                        "OutputCaptured", "Normalized", last>>
       /\ Len(results) = 1

\* the place of a state in the order of the request's state machine
Rank(ph) == CASE ph = "Received" -> 1
              [] ph = "ArgumentsBuilt" -> 2
              [] ph = "ProcessSpawned" -> 3
              [] ph = "OutputCaptured" -> 4
              [] ph = "Normalized" -> 5
              [] ph \in {"RepliedSuccess", "RepliedError"} -> 6

InPhases(ph) == \E i \in 1..Len(phases) : phases[i] = ph

(***************************************************************************)
(* C10, amended.  The states a request passes are in the order Received,   *)
(* ArgumentsBuilt, ProcessSpawned, OutputCaptured, Normalized, Replied*,   *)
(* none entered twice; a request that fails early skips the states it      *)
(* does not reach.  create_subprocess_exec is called at most once, at most *)
(* one child is spawned and at most one process result is captured, and a  *)
(* request whose child was spawned is replied to only after the child's    *)
(* result has been captured.                                               *)
(***************************************************************************)
C10_OrderedAtMostOnce ==
    /\ \A i \in 1..(Len(phases) - 1) : Rank(phases[i]) < Rank(phases[i + 1])
    /\ attempts <= 1
    /\ children <= attempts
    /\ Len(results) <= children
    /\ InPhases("ProcessSpawned") <=> children = 1
    /\ InPhases("OutputCaptured") <=> Len(results) = 1
    /\ reply # <<>> <=> (InPhases("RepliedSuccess") \/ InPhases("RepliedError"))
    /\ (reply # <<>> /\ children = 1) => Len(results) = 1
    /\ InPhases("RepliedSuccess") => InPhases("Normalized")

\* scenario A: check_file, a complete document, exit code 0, a success reply
C10_Witness ==
    /\ pc = "replied"
    /\ name = CHECK_FILE
    /\ results = <<[stdout |-> encode(DocScenarioA), stderr |-> <<>>,
                    returncode |-> 0]>>
    /\ phases = <<"Received", "ArgumentsBuilt", "ProcessSpawned",
                  "OutputCaptured", "Normalized", "RepliedSuccess">>

=============================================================================
